---- MODULE Spec2Model ----
(***************************************************************************)
(* A model of gwtreleaser (src/main.go): the one-shot pipeline of main()   *)
(* and the two archive readers extractGeodeFileFromZip and                 *)
(* parseVersionFromGeode.                                                  *)
(*                                                                         *)
(* Strings that the code inspects character by character (entry names,     *)
(* JSON keys, the version, the tag name) are sequences of one-character    *)
(* strings.  Byte buffers are records: what zip.NewReader and json.Decoder *)
(* make of them.                                                           *)
(***************************************************************************)
EXTENDS Integers, Sequences, FiniteSets, TLC

VARIABLES p, q
\* p: the process and the world it acts on (remote repository, temp dir).
\* q: a second process, run beside p on the same inputs with the other
\*    setting of the verbose flag (used by SpecPair only).

vars == <<p, q>>

(***************************************************************************)
(* Bounds of the model.                                                    *)
(***************************************************************************)
MaxRunList   == 2   \* workflow runs in one ListWorkflowRuns response
MaxArtifacts == 2   \* artifacts in one ListArtifacts response
MaxOuter     == 2   \* entries of a downloaded artifact archive
MaxInner     == 2   \* entries of a .geode archive (SpecParse)
MaxProcs     == 2   \* process runs against the same repository (SpecRerun)

(***************************************************************************)
(* Strings.                                                                *)
(***************************************************************************)
GeodeSuffix == <<".", "g", "e", "o", "d", "e">>
ModJsonName == <<"m", "o", "d", ".", "j", "s", "o", "n">>
VersionKey  == <<"v", "e", "r", "s", "i", "o", "n">>
RefsTags    == <<"r", "e", "f", "s", "/", "t", "a", "g", "s", "/">>
ReleaseSp   == <<"R", "e", "l", "e", "a", "s", "e", " ">>
BuildOutput == "Build Output"

\* strings.HasSuffix
HasSuffix(s, suffix) ==
    /\ Len(s) >= Len(suffix)
    /\ SubSeq(s, Len(s) - Len(suffix) + 1, Len(s)) = suffix

\* os.IsPathSeparator: '/' everywhere, and '\' too on Windows.
IsPathSeparator(goos, c) == c = "/" \/ (goos = "windows" /\ c = "\\")

\* len(filepath.VolumeName(path)): a drive letter and a colon on Windows
\* (UNC names are not among the entry names the model draws), 0 elsewhere.
VolumeNameLen(goos, path) ==
    IF goos = "windows" /\ Len(path) >= 2 /\ path[2] = ":"
       /\ path[1] \in {"a", "b", "c", "d", "C", "D"}
    THEN 2 ELSE 0

RECURSIVE StripTrailing(_, _)
StripTrailing(goos, path) ==
    IF Len(path) > 0 /\ IsPathSeparator(goos, path[Len(path)])
    THEN StripTrailing(goos, SubSeq(path, 1, Len(path) - 1))
    ELSE path

RECURSIVE LastSeparator(_, _, _)
LastSeparator(goos, path, i) ==
    IF i >= 1 /\ ~IsPathSeparator(goos, path[i])
    THEN LastSeparator(goos, path, i - 1)
    ELSE i

\* path/filepath.Base
FilepathBase(goos, path) ==
    IF path = <<>> THEN <<".">>
    ELSE LET s == StripTrailing(goos, path)
             v == SubSeq(s, VolumeNameLen(goos, s) + 1, Len(s))
             i == LastSeparator(goos, v, Len(v))
             b == IF i >= 1 THEN SubSeq(v, i + 1, Len(v)) ELSE v
         IN  IF b = <<>> THEN (IF goos = "windows" THEN <<"\\">> ELSE <<"/">>)
             ELSE b

\* fmt: the strings doPrintf writes for a malformed directive.
noVerbString  == <<"%", "!", "(", "N", "O", "V", "E", "R", "B", ")">>
percentBang   == <<"%", "!">>
missingString == <<"(", "M", "I", "S", "S", "I", "N", "G", ")">>

IsFlag(c)  == c \in {"#", "0", "+", "-", " "}
IsDigit(c) == c \in {"0", "1", "2", "3", "4", "5", "6", "7", "8", "9"}

RECURSIVE SkipFlags(_, _)
SkipFlags(format, i) ==
    IF i <= Len(format) /\ IsFlag(format[i]) THEN SkipFlags(format, i + 1) ELSE i

\* fmt.parsenum: the index after a run of digits.
RECURSIVE Parsenum(_, _)
Parsenum(format, i) ==
    IF i <= Len(format) /\ IsDigit(format[i]) THEN Parsenum(format, i + 1) ELSE i

\* fmt.(*pp).doPrintf with no operands, from index i: text is copied up to a
\* '%'; then flags, a width and a precision are consumed; a directive cut
\* short by the end of the format writes %!(NOVERB), the verb '%' writes one
\* '%', and any other verb, having no operand, writes %!verb(MISSING).
\* ('*' and '[' are not in the alphabet the model draws versions from.)
RECURSIVE DoPrintf(_, _)
DoPrintf(format, i) ==
    IF i > Len(format) THEN <<>>
    ELSE IF format[i] # "%" THEN <<format[i]>> \o DoPrintf(format, i + 1)
    ELSE LET j == SkipFlags(format, i + 1)
             k == Parsenum(format, j)
             m == IF k <= Len(format) /\ format[k] = "."
                  THEN Parsenum(format, k + 1) ELSE k
         IN  IF m > Len(format) THEN noVerbString
             ELSE IF format[m] = "%" THEN <<"%">> \o DoPrintf(format, m + 1)
             ELSE percentBang \o <<format[m]>> \o missingString
                  \o DoPrintf(format, m + 1)

\* fmt.Sprintf(format) as line 154 calls it: the version is the FORMAT.
Sprintf(format) == DoPrintf(format, 1)

\* fmt.Sprintf("Release %s", tagName), line 201.
ReleaseName(tagName) == ReleaseSp \o tagName

(***************************************************************************)
(* Byte buffers, archives and the metadata record.                         *)
(***************************************************************************)
NoDoc == [top |-> "none", members |-> <<>>]

\* Bytes that are neither an archive nor JSON text; id tells buffers apart.
Raw(id) == [kind |-> "raw", files |-> <<>>, doc |-> NoDoc, id |-> id]
\* Bytes that zip.NewReader opens, with the central directory's entries.
Zip(files) == [kind |-> "zip", files |-> files, doc |-> NoDoc, id |-> 0]
\* Bytes that are one syntactically valid JSON value.
Json(doc) == [kind |-> "json", files |-> <<>>, doc |-> doc, id |-> 0]

\* zip.File: the name, FileInfo().IsDir(), whether Open() succeeds (the
\* compression method is supported), and the bytes Open() yields.
File(name, isDir, opens, content) ==
    [name |-> name, isDir |-> isDir, opens |-> opens, content |-> content]

\* unicode case folding of the letters that occur in the keys drawn.
Lower(c) ==
    CASE c = "V" -> "v" [] c = "E" -> "e" [] c = "R" -> "r" [] c = "S" -> "s"
      [] c = "I" -> "i" [] c = "O" -> "o" [] c = "N" -> "n" [] OTHER -> c

EqualFold(a, b) ==
    Len(a) = Len(b) /\ \A i \in 1..Len(a) : Lower(a[i]) = Lower(b[i])

\* encoding/json decoding one object into ModJSON: members are taken in
\* order; a key that matches "version" (exactly or under case folding) sets
\* Version from a string, leaves it alone for null, and records an
\* UnmarshalTypeError for any other value; later members overwrite earlier.
RECURSIVE DecodeMembers(_, _, _)
DecodeMembers(members, i, acc) ==
    IF i > Len(members) THEN acc
    ELSE LET m == members[i]
         IN  IF ~EqualFold(m.key, VersionKey) THEN DecodeMembers(members, i + 1, acc)
             ELSE IF m.t = "string"
                  THEN DecodeMembers(members, i + 1, [acc EXCEPT !.Version = m.s])
             ELSE IF m.t = "null" THEN DecodeMembers(members, i + 1, acc)
             ELSE DecodeMembers(members, i + 1, [acc EXCEPT !.err = TRUE])

\* json.NewDecoder(rc).Decode(&mod) with mod a zero ModJSON.
Decode(content) ==
    IF content.kind # "json" THEN [err |-> TRUE, Version |-> <<>>]
    ELSE IF content.doc.top = "null" THEN [err |-> FALSE, Version |-> <<>>]
    ELSE IF content.doc.top # "object" THEN [err |-> TRUE, Version |-> <<>>]
    ELSE DecodeMembers(content.doc.members, 1, [err |-> FALSE, Version |-> <<>>])

ErrOpenZip      == "failed to open zip reader"
ErrOpenGeode    == "failed to open .geode file inside zip"
ErrNoGeode      == ".geode file not found in zip"
ErrOpenAsZip    == "failed to open .geode as zip"
ErrOpenModJson  == "failed to open mod.json inside .geode"
ErrDecode       == "failed to decode mod.json"
ErrNoVersion    == "version key not found in mod.json"
ErrNoModJson    == "mod.json not found inside .geode file"

\* Lines 249-268: the loop from entry i.
RECURSIVE ExtractScan(_, _, _)
ExtractScan(goos, files, i) ==
    IF i > Len(files)
    THEN [err |-> ErrNoGeode, data |-> Raw(0), name |-> <<>>]
    ELSE IF HasSuffix(files[i].name, GeodeSuffix)
         THEN IF ~files[i].opens
              THEN [err |-> ErrOpenGeode, data |-> Raw(0), name |-> <<>>]
              ELSE [err |-> "", data |-> files[i].content,
                    name |-> FilepathBase(goos, files[i].name)]
         ELSE ExtractScan(goos, files, i + 1)

extractGeodeFileFromZip(goos, zipData) ==
    IF zipData.kind # "zip"
    THEN [err |-> ErrOpenZip, data |-> Raw(0), name |-> <<>>]
    ELSE ExtractScan(goos, zipData.files, 1)

\* ParseScan without the directory check of lines 278-280.
RECURSIVE ParseScanDirsToo(_, _)
ParseScanDirsToo(files, i) ==
    IF i > Len(files) THEN [err |-> ErrNoModJson, version |-> <<>>]
    ELSE IF HasSuffix(files[i].name, ModJsonName)
         THEN IF ~files[i].opens THEN [err |-> ErrOpenModJson, version |-> <<>>]
              ELSE LET mod == Decode(files[i].content)
                   IN  IF mod.err THEN [err |-> ErrDecode, version |-> <<>>]
                       ELSE IF mod.Version = <<>>
                            THEN [err |-> ErrNoVersion, version |-> <<>>]
                       ELSE [err |-> "", version |-> mod.Version]
         ELSE ParseScanDirsToo(files, i + 1)

\* Lines 277-304: the loop from entry i.
RECURSIVE ParseScan(_, _)
ParseScan(files, i) ==
    IF i > Len(files) THEN [err |-> ErrNoModJson, version |-> <<>>]
    ELSE IF files[i].isDir THEN ParseScan(files, i + 1)
    ELSE IF HasSuffix(files[i].name, ModJsonName)
         THEN IF ~files[i].opens THEN [err |-> ErrOpenModJson, version |-> <<>>]
              ELSE LET mod == Decode(files[i].content)
                   IN  IF mod.err THEN [err |-> ErrDecode, version |-> <<>>]
                       ELSE IF mod.Version = <<>>
                            THEN [err |-> ErrNoVersion, version |-> <<>>]
                       ELSE [err |-> "", version |-> mod.Version]
         ELSE ParseScan(files, i + 1)

parseVersionFromGeode(geodeData) ==
    IF geodeData.kind # "zip" THEN [err |-> ErrOpenAsZip, version |-> <<>>]
    ELSE ParseScan(geodeData.files, 1)

\* debugListZipContents: the error of zip.NewReader, or the names listed.
debugListZipContents(zipData) ==
    IF zipData.kind # "zip" THEN [err |-> TRUE, names |-> <<>>]
    ELSE [err |-> FALSE,
          names |-> [i \in 1..Len(zipData.files) |-> zipData.files[i].name]]

(***************************************************************************)
(* The inputs the model draws.                                             *)
(***************************************************************************)
SeqsUpTo(S, n) == UNION {[1..k -> S] : k \in 0..n}

NoVersion == <<>>

\* Versions a mod.json may carry in the pipeline runs: plain, empty, and
\* with '%' in the places fmt treats differently.
PipeVersions ==
    {NoVersion, <<"1">>, <<"%", "v">>, <<"%", "%">>, <<"1", "%">>}

Member(key, t, s) == [key |-> key, t |-> t, s |-> s]
Object(members) == Json([top |-> "object", members |-> members])
ModJsonWith(v) == Object(<<Member(VersionKey, "string", v)>>)

\* A .geode file as the pipeline may download it.
PipeGeodes ==
    {Raw(1), Zip(<<>>), Zip(<<File(ModJsonName, FALSE, TRUE, Raw(2))>>)}
    \cup {Zip(<<File(<<"a", "/">> \o ModJsonName, FALSE, TRUE, ModJsonWith(v))>>) :
            v \in PipeVersions}

\* Entries of the outer artifact archive: a text file, a directory whose
\* name ends in .geode (marked a directory by its attributes, not by a
\* trailing slash), module files under a slash and under a backslash.
PipeFiles ==
    {File(<<"a", ".", "t", "x", "t">>, FALSE, TRUE, Raw(3)),
     File(<<"d">> \o GeodeSuffix, TRUE, TRUE, Raw(0)),
     File(<<"b", "\\", "n">> \o GeodeSuffix, FALSE, TRUE, Zip(<<>>)),
     File(<<"b", "/", "m">> \o GeodeSuffix, FALSE, FALSE, Raw(0))}
    \cup {File(<<"b", "/", "m">> \o GeodeSuffix, FALSE, TRUE, g) : g \in PipeGeodes}

PipeZips == {Raw(4)} \cup {Zip(fs) : fs \in SeqsUpTo(PipeFiles, MaxOuter)}

RunIDs   == {1, 2}
RunLists == SeqsUpTo(RunIDs, MaxRunList)

\* github.Artifact: its name, and its WorkflowRun: absent ("none"), present
\* without an ID ("noid"), or present with the ID runID ("id").
Artifacts ==
    {[name |-> n, wr |-> "id", runID |-> r] : n \in {BuildOutput, "other"}, r \in RunIDs}
    \cup {[name |-> n, wr |-> w, runID |-> 0] :
            n \in {BuildOutput, "other"}, w \in {"none", "noid"}}
ArtLists == SeqsUpTo(Artifacts, MaxArtifacts)

\* What a blocking call gives back: failure, or success with its payload.
Resp(ok, runs, arts, data) == [ok |-> ok, runs |-> runs, arts |-> arts, data |-> data]
NoResp == Resp(TRUE, <<>>, <<>>, Raw(0))
Failed == Resp(FALSE, <<>>, <<>>, Raw(0))

(***************************************************************************)
(* The process.                                                            *)
(***************************************************************************)
Running == -1

\* The state at the entry of main(): flags and environment read, nothing
\* done.  tags, refs, releases, assets are the remote repository.
NewProc(goos, owner, repo, token, verbose) ==
    [pc |-> "config", exit |-> Running, proc |-> 1,
     goos |-> goos, owner |-> owner, repo |-> repo, token |-> token,
     verbose |-> verbose,
     trace |-> <<>>, lister |-> <<>>, success |-> FALSE,
     runs |-> <<>>, latestRun |-> 0, arts |-> <<>>, artifact |-> 0,
     tmpFiles |-> {}, created |-> {},
     zipData |-> Raw(0), geodeData |-> Raw(0), geodeFilename |-> <<>>,
     version |-> <<>>, tagName |-> <<>>,
     tags |-> {}, refs |-> {}, releases |-> {}, assets |-> {}]

\* One line of the history: the step attempted, its salient argument, and
\* the diagnostic it failed with ("" when it succeeded).
Did(step, arg, err) == [step |-> step, arg |-> arg, err |-> err]

Record(s, step, arg, err) == [s EXCEPT !.trace = Append(@, Did(step, arg, err))]

\* log.Fatal / log.Fatalf / os.Exit(1): the process ends at once with status
\* 1; os.Exit runs no deferred function.
Fatal(s, step, arg, err) ==
    [Record(s, step, arg, err) EXCEPT !.pc = "exited", !.exit = 1]

\* A nil pointer dereference: a run-time panic, status 2; no deferred
\* function of main has been pushed where the model can panic.
Panic(s, step, arg, err) ==
    [Record(s, step, arg, err) EXCEPT !.pc = "exited", !.exit = 2]

\* The step succeeded; go on at pc.
Goto(s, step, arg, pc) == [Record(s, step, arg, "") EXCEPT !.pc = pc]

\* Config with the credential left unchecked.
ConfigTokenUnchecked(s, r) ==
    IF s.owner = "" \/ s.repo = "" THEN Fatal(s, "config", <<>>, "usage")
    ELSE Goto(s, "config", <<>>, "listRuns")

\* Lines 34-54.
Config(s, r) ==
    IF s.owner = "" \/ s.repo = "" THEN Fatal(s, "config", <<>>, "usage")
    ELSE IF s.token = ""
         THEN Fatal(s, "config", <<>>, "GITHUB_TOKEN environment variable must be set")
    ELSE Goto(s, "config", <<>>, "listRuns")

\* ListWorkflowRuns reporting an empty list without ending the process.
ListWorkflowRunsNoExit(s, r) ==
    IF ~r.ok THEN Fatal(s, "ListWorkflowRunsByFileName", <<>>, "Error listing workflow runs")
    ELSE IF Len(r.runs) = 0
         THEN [Record(s, "ListWorkflowRunsByFileName", <<>>, "No completed workflow runs found")
                 EXCEPT !.pc = "listArtifacts"]
    ELSE [Goto(s, "ListWorkflowRunsByFileName", <<>>, "listArtifacts")
            EXCEPT !.runs = r.runs, !.latestRun = r.runs[1]]

\* Lines 56-71.
ListWorkflowRuns(s, r) ==
    IF ~r.ok THEN Fatal(s, "ListWorkflowRunsByFileName", <<>>, "Error listing workflow runs")
    ELSE IF Len(r.runs) = 0
         THEN Fatal(s, "ListWorkflowRunsByFileName", <<>>, "No completed workflow runs found")
    ELSE [Goto(s, "ListWorkflowRunsByFileName", <<>>, "listArtifacts")
            EXCEPT !.runs = r.runs, !.latestRun = r.runs[1]]

\* The loop of lines 81-87 from index i: 0 when no artifact matches, -1 when
\* *a.GetWorkflowRun().ID dereferences nil (line 82 evaluates it for every
\* artifact it reaches, verbose or not: arguments are evaluated before
\* debugf is entered).
RECURSIVE ScanArtifacts(_, _, _)
ScanArtifacts(arts, i, runID) ==
    IF i > Len(arts) THEN 0
    ELSE IF arts[i].wr # "id" THEN -1
    ELSE IF arts[i].name = BuildOutput /\ arts[i].runID = runID THEN i
    ELSE ScanArtifacts(arts, i + 1, runID)

\* Lines 73-91.
ListArtifacts(s, r) ==
    IF ~r.ok THEN Fatal(s, "ListArtifacts", <<>>, "Error listing artifacts")
    ELSE LET t   == [s EXCEPT !.arts = r.arts]
             sel == ScanArtifacts(r.arts, 1, s.latestRun)
         IN  IF sel = -1
             THEN Panic(t, "ListArtifacts", <<>>, "nil pointer dereference")
             ELSE IF sel = 0
                  THEN Fatal(t, "ListArtifacts", <<>>,
                             "Artifact 'Build Output' not found for latest run")
             ELSE [Goto(t, "ListArtifacts", <<>>, "getURL") EXCEPT !.artifact = sel]

\* Lines 93-98.  runs, arts and latestRun are not read after line 91, nor
\* artifact after line 94: they are dropped.
DownloadArtifact(s, r) ==
    LET t == [s EXCEPT !.runs = <<>>, !.arts = <<>>, !.latestRun = 0, !.artifact = 0]
    IN  IF ~r.ok THEN Fatal(t, "DownloadArtifact", <<>>, "Error getting artifact download URL")
        ELSE Goto(t, "DownloadArtifact", <<>>, "createTempZip")

\* Lines 100-109.
CreateTempZip(s, r) ==
    IF ~r.ok THEN Fatal(s, "CreateTemp zip", <<>>, "Error creating temp file for artifact download")
    ELSE [Goto(s, "CreateTemp zip", <<>>, "httpGet")
            EXCEPT !.tmpFiles = @ \cup {"artifact.zip"}, !.created = @ \cup {"artifact.zip"}]

\* HttpGet logging a failed download and going on.
HttpGetNoExit(s, r) ==
    IF ~r.ok THEN [Record(s, "http.Get", <<>>, "Error downloading artifact")
                     EXCEPT !.pc = "copy"]
    ELSE Goto(s, "http.Get", <<>>, "copy")

\* Lines 111-115.
HttpGet(s, r) ==
    IF ~r.ok THEN Fatal(s, "http.Get", <<>>, "Error downloading artifact")
    ELSE Goto(s, "http.Get", <<>>, "copy")

\* Lines 117-121.
CopyBody(s, r) ==
    IF ~r.ok THEN Fatal(s, "io.Copy", <<>>, "Error writing artifact to temp file")
    ELSE Goto(s, "io.Copy", <<>>, "readFile")

\* Lines 123-126: zipData is what the temporary file holds, the bytes that
\* were downloaded.
ReadFile(s, r) ==
    IF ~r.ok THEN Fatal(s, "os.ReadFile", <<>>,
                        "Error reading downloaded artifact zip from temp file")
    ELSE [Goto(s, "os.ReadFile", <<>>, "locate") EXCEPT !.zipData = r.data]

\* Lines 134-146: the two listings, made only when verbose, their errors
\* logged and dropped.
Diagnostics(s, geodeData) ==
    IF s.verbose
    THEN [s EXCEPT !.lister = @ \o <<debugListZipContents(s.zipData).err,
                                     debugListZipContents(geodeData).err>>]
    ELSE s

\* Locate treating a failed listing as fatal.
LocateListingFatal(s, r) ==
    LET x == extractGeodeFileFromZip(s.goos, s.zipData)
        d == Diagnostics(s, x.data)
    IN  IF x.err # "" THEN Fatal(s, "extractGeodeFileFromZip", <<>>, x.err)
        ELSE IF \E i \in 1..Len(d.lister) : d.lister[i]
             THEN Fatal(d, "extractGeodeFileFromZip", x.name, "Failed to list zip contents")
        ELSE [Goto(d, "extractGeodeFileFromZip", x.name, "parse")
                EXCEPT !.geodeData = x.data, !.geodeFilename = x.name]

\* Lines 128-146.
Locate(s, r) ==
    LET x == extractGeodeFileFromZip(s.goos, s.zipData)
    IN  IF x.err # "" THEN Fatal(s, "extractGeodeFileFromZip", <<>>, x.err)
        ELSE [Goto(Diagnostics(s, x.data), "extractGeodeFileFromZip", x.name, "parse")
                EXCEPT !.geodeData = x.data, !.geodeFilename = x.name]

\* Lines 148-154.  zipData is not read after line 136 and is dropped.
Parse(s, r) ==
    LET v == parseVersionFromGeode(s.geodeData)
        t == [s EXCEPT !.zipData = Raw(0)]
    IN  IF v.err # "" THEN Fatal(t, "parseVersionFromGeode", <<>>, v.err)
        ELSE [Goto(t, "parseVersionFromGeode", v.version, "getRef")
                EXCEPT !.version = v.version, !.tagName = Sprintf(v.version)]

\* Lines 156-162.
GetRef(s, r) ==
    IF ~r.ok THEN Fatal(s, "GetRef", <<>>, "Error getting branch ref")
    ELSE Goto(s, "GetRef", <<>>, "createTag")

\* Lines 164-183.
CreateTag(s, r) ==
    IF ~r.ok THEN Fatal(s, "CreateTag", s.tagName, "Error creating git tag object")
    ELSE [Goto(s, "CreateTag", s.tagName, "createRef") EXCEPT !.tags = @ \cup {s.tagName}]

\* The reference line 186 names.
TagRef(s) == RefsTags \o s.tagName

\* CreateRef logging a refused reference and going on to the release.
CreateRefNoExit(s, r) ==
    IF ~r.ok THEN [Record(s, "CreateRef", TagRef(s), "Error creating tag ref")
                     EXCEPT !.pc = "createRelease"]
    ELSE [Goto(s, "CreateRef", TagRef(s), "createRelease") EXCEPT !.refs = @ \cup {TagRef(s)}]

\* Lines 185-196.
CreateRef(s, r) ==
    IF ~r.ok THEN Fatal(s, "CreateRef", TagRef(s), "Error creating tag ref")
    ELSE [Goto(s, "CreateRef", TagRef(s), "createRelease") EXCEPT !.refs = @ \cup {TagRef(s)}]

\* Lines 198-207.
CreateRelease(s, r) ==
    IF ~r.ok THEN Fatal(s, "CreateRelease", s.tagName, "Error creating release")
    ELSE [Goto(s, "CreateRelease", s.tagName, "createTempGeode")
            EXCEPT !.releases = @ \cup {[tag |-> s.tagName, name |-> ReleaseName(s.tagName)]}]

\* Lines 209-216.
CreateTempGeode(s, r) ==
    IF ~r.ok THEN Fatal(s, "CreateTemp geode", <<>>, "Error creating temp file for upload")
    ELSE [Goto(s, "CreateTemp geode", <<>>, "write")
            EXCEPT !.tmpFiles = @ \cup {"mod.geode"}, !.created = @ \cup {"mod.geode"}]

\* Lines 218-222.
WriteGeode(s, r) ==
    IF ~r.ok THEN Fatal(s, "Write", <<>>, "Error writing .geode to temp file")
    ELSE Goto(s, "Write", <<>>, "open")

\* Lines 224-232.
OpenGeode(s, r) ==
    IF ~r.ok THEN Fatal(s, "os.Open", <<>>, "Error opening temp file for upload")
    ELSE Goto(s, "os.Open", <<>>, "upload")

\* Line 241: main returns; its deferred functions run, last pushed first,
\* and remove both temporary files; the process ends with status 0.
Return(s) == [s EXCEPT !.pc = "exited", !.exit = 0, !.success = TRUE, !.tmpFiles = {}]

\* Lines 234-241.
UploadReleaseAsset(s, r) ==
    IF ~r.ok THEN Fatal(s, "UploadReleaseAsset", s.geodeFilename, "Error uploading release asset")
    ELSE Return([Record(s, "UploadReleaseAsset", s.geodeFilename, "")
                   EXCEPT !.assets = @ \cup {[tag |-> s.tagName, name |-> s.geodeFilename]}])

\* The hosting service refuses to create a reference that exists.
RefCreatable(s) == TagRef(s) \notin s.refs

\* What the environment may answer at the step s is about to take.
Responses(s) ==
    CASE s.pc \in {"config", "locate", "parse"} -> {NoResp}
      [] s.pc = "listRuns" -> {Failed} \cup {Resp(TRUE, rs, <<>>, Raw(0)) : rs \in RunLists}
      [] s.pc = "listArtifacts" -> {Failed} \cup {Resp(TRUE, <<>>, as, Raw(0)) : as \in ArtLists}
      [] s.pc = "readFile" -> {Failed} \cup {Resp(TRUE, <<>>, <<>>, z) : z \in PipeZips}
      [] s.pc = "createRef" -> {Failed} \cup (IF RefCreatable(s) THEN {NoResp} ELSE {})
      [] s.pc = "exited" -> {}
      [] OTHER -> {Failed, NoResp}

\* The step main takes at s.pc, given the environment's answer r.
Step(s, r) ==
    CASE s.pc = "config"          -> Config(s, r)
      [] s.pc = "listRuns"        -> ListWorkflowRuns(s, r)
      [] s.pc = "listArtifacts"   -> ListArtifacts(s, r)
      [] s.pc = "getURL"          -> DownloadArtifact(s, r)
      [] s.pc = "createTempZip"   -> CreateTempZip(s, r)
      [] s.pc = "httpGet"         -> HttpGet(s, r)
      [] s.pc = "copy"            -> CopyBody(s, r)
      [] s.pc = "readFile"        -> ReadFile(s, r)
      [] s.pc = "locate"          -> Locate(s, r)
      [] s.pc = "parse"           -> Parse(s, r)
      [] s.pc = "getRef"          -> GetRef(s, r)
      [] s.pc = "createTag"       -> CreateTag(s, r)
      [] s.pc = "createRef"       -> CreateRef(s, r)
      [] s.pc = "createRelease"   -> CreateRelease(s, r)
      [] s.pc = "createTempGeode" -> CreateTempGeode(s, r)
      [] s.pc = "write"           -> WriteGeode(s, r)
      [] s.pc = "open"            -> OpenGeode(s, r)
      [] s.pc = "upload"          -> UploadReleaseAsset(s, r)

(***************************************************************************)
(* Spec: one run of the process.                                           *)
(***************************************************************************)
Init ==
    \E goos \in {"linux", "windows"}, owner \in {"", "o"}, repo \in {"", "r"},
       token \in {"", "t"}, verbose \in BOOLEAN :
        /\ p = NewProc(goos, owner, repo, token, verbose)
        /\ q = NewProc(goos, owner, repo, token, ~verbose)

DoConfig ==
    /\ p.pc = "config"
    /\ \E r \in Responses(p) : p' = Config(p, r)
    /\ UNCHANGED q
DoListWorkflowRuns ==
    /\ p.pc = "listRuns"
    /\ \E r \in Responses(p) : p' = ListWorkflowRuns(p, r)
    /\ UNCHANGED q
DoListArtifacts ==
    /\ p.pc = "listArtifacts"
    /\ \E r \in Responses(p) : p' = ListArtifacts(p, r)
    /\ UNCHANGED q
DoDownloadArtifact ==
    /\ p.pc = "getURL"
    /\ \E r \in Responses(p) : p' = DownloadArtifact(p, r)
    /\ UNCHANGED q
DoCreateTempZip ==
    /\ p.pc = "createTempZip"
    /\ \E r \in Responses(p) : p' = CreateTempZip(p, r)
    /\ UNCHANGED q
DoHttpGet ==
    /\ p.pc = "httpGet"
    /\ \E r \in Responses(p) : p' = HttpGet(p, r)
    /\ UNCHANGED q
DoCopyBody ==
    /\ p.pc = "copy"
    /\ \E r \in Responses(p) : p' = CopyBody(p, r)
    /\ UNCHANGED q
DoReadFile ==
    /\ p.pc = "readFile"
    /\ \E r \in Responses(p) : p' = ReadFile(p, r)
    /\ UNCHANGED q
DoLocate ==
    /\ p.pc = "locate"
    /\ \E r \in Responses(p) : p' = Locate(p, r)
    /\ UNCHANGED q
DoParse ==
    /\ p.pc = "parse"
    /\ \E r \in Responses(p) : p' = Parse(p, r)
    /\ UNCHANGED q
DoGetRef ==
    /\ p.pc = "getRef"
    /\ \E r \in Responses(p) : p' = GetRef(p, r)
    /\ UNCHANGED q
DoCreateTag ==
    /\ p.pc = "createTag"
    /\ \E r \in Responses(p) : p' = CreateTag(p, r)
    /\ UNCHANGED q
DoCreateRef ==
    /\ p.pc = "createRef"
    /\ \E r \in Responses(p) : p' = CreateRef(p, r)
    /\ UNCHANGED q
DoCreateRelease ==
    /\ p.pc = "createRelease"
    /\ \E r \in Responses(p) : p' = CreateRelease(p, r)
    /\ UNCHANGED q
DoCreateTempGeode ==
    /\ p.pc = "createTempGeode"
    /\ \E r \in Responses(p) : p' = CreateTempGeode(p, r)
    /\ UNCHANGED q
DoWriteGeode ==
    /\ p.pc = "write"
    /\ \E r \in Responses(p) : p' = WriteGeode(p, r)
    /\ UNCHANGED q
DoOpenGeode ==
    /\ p.pc = "open"
    /\ \E r \in Responses(p) : p' = OpenGeode(p, r)
    /\ UNCHANGED q
DoUploadReleaseAsset ==
    /\ p.pc = "upload"
    /\ \E r \in Responses(p) : p' = UploadReleaseAsset(p, r)
    /\ UNCHANGED q

Next ==
    \/ DoConfig \/ DoListWorkflowRuns \/ DoListArtifacts \/ DoDownloadArtifact
    \/ DoCreateTempZip \/ DoHttpGet \/ DoCopyBody \/ DoReadFile
    \/ DoLocate \/ DoParse \/ DoGetRef \/ DoCreateTag \/ DoCreateRef
    \/ DoCreateRelease \/ DoCreateTempGeode \/ DoWriteGeode \/ DoOpenGeode
    \/ DoUploadReleaseAsset

Spec == Init /\ [][Next]_vars

(***************************************************************************)
(* SpecRerun: the process is started again, on the same configuration,     *)
(* against the repository the earlier runs left behind.                    *)
(***************************************************************************)
\* A new process: main() starts from scratch; only the remote repository
\* carries over.  tmpFiles and created are those of the new process.
Restart(s) ==
    [NewProc(s.goos, s.owner, s.repo, s.token, s.verbose)
       EXCEPT !.proc = s.proc + 1, !.tags = s.tags, !.refs = s.refs,
              !.releases = s.releases, !.assets = s.assets]

DoRestart ==
    /\ p.pc = "exited"
    /\ p.proc < MaxProcs
    /\ p' = Restart(p)
    /\ UNCHANGED q

NextRerun == Next \/ DoRestart

\* Every run is made with the same complete configuration.
InitRerun ==
    /\ p = NewProc("linux", "o", "r", "t", FALSE)
    /\ q = NewProc("linux", "o", "r", "t", TRUE)

SpecRerun == InitRerun /\ [][NextRerun]_vars

(***************************************************************************)
(* SpecPair: p and q, which differ in the verbose flag alone, run side by  *)
(* side and are given the same answer at every step.                       *)
(***************************************************************************)
PairStep ==
    /\ p.pc = q.pc
    /\ \E r \in Responses(p) \cap Responses(q) :
          /\ p' = Step(p, r)
          /\ q' = Step(q, r)

SpecPair == Init /\ [][PairStep]_vars

(***************************************************************************)
(* SpecParse: parseVersionFromGeode on every small module archive.         *)
(***************************************************************************)
InnerNames ==
    {ModJsonName, <<"a", "/">> \o ModJsonName, <<"x">> \o ModJsonName,
     <<"x", ".", "t", "x", "t">>}

\* What a mod.json may hold: not JSON; null; an array; objects with no
\* version, with a version, with an empty one, under another case of the
\* key, of another type, twice, and once as a string and once as null.
InnerDocs ==
    {Raw(1),
     Json([top |-> "null", members |-> <<>>]),
     Json([top |-> "array", members |-> <<>>]),
     Object(<<>>),
     Object(<<Member(<<"n", "a", "m", "e">>, "string", <<"x">>)>>),
     ModJsonWith(<<"1">>),
     ModJsonWith(<<" ", "1", "%">>),
     ModJsonWith(NoVersion),
     Object(<<Member(<<"V", "e", "r", "s", "i", "o", "n">>, "string", <<"2">>)>>),
     Object(<<Member(VersionKey, "number", <<"3">>)>>),
     Object(<<Member(VersionKey, "string", <<"1">>), Member(VersionKey, "string", <<"2">>)>>),
     Object(<<Member(VersionKey, "string", <<"1">>), Member(VersionKey, "null", <<>>)>>)}

\* Directory entries carry no data; a file entry either cannot be opened
\* or yields one of the documents.
InnerFiles ==
    {File(n, TRUE, TRUE, Raw(0)) : n \in InnerNames}
    \cup {File(n, FALSE, FALSE, Raw(0)) : n \in InnerNames}
    \cup {File(n, FALSE, TRUE, d) : n \in InnerNames, d \in InnerDocs}

InnerGeodes == {Raw(1)} \cup {Zip(fs) : fs \in SeqsUpTo(InnerFiles, MaxInner)}

\* The history of a run that reached line 148.
TraceToParse ==
    <<Did("config", <<>>, ""), Did("ListWorkflowRunsByFileName", <<>>, ""),
      Did("ListArtifacts", <<>>, ""), Did("DownloadArtifact", <<>>, ""),
      Did("CreateTemp zip", <<>>, ""), Did("http.Get", <<>>, ""),
      Did("io.Copy", <<>>, ""), Did("os.ReadFile", <<>>, ""),
      Did("extractGeodeFileFromZip", <<"m">> \o GeodeSuffix, "")>>

\* The process at line 148 holding the module bytes g.
AtParse(g, verbose) ==
    [NewProc("linux", "o", "r", "t", verbose)
       EXCEPT !.pc = "parse", !.trace = TraceToParse,
              !.tmpFiles = {"artifact.zip"},
              !.created = {"artifact.zip"}, !.geodeData = g,
              !.geodeFilename = <<"m">> \o GeodeSuffix]

InitParse ==
    \E g \in InnerGeodes :
        /\ p = AtParse(g, FALSE)
        /\ q = AtParse(g, TRUE)

SpecParse == InitParse /\ [][DoParse]_vars

(***************************************************************************)
(* The claims.                                                             *)
(***************************************************************************)
Min(S) == CHOOSE x \in S : \A y \in S : x <= y
Max(S) == CHOOSE x \in S : \A y \in S : x >= y

Last(s) == s.trace[Len(s.trace)]
Attempted(s, step) == \E i \in 1..Len(s.trace) : s.trace[i].step = step
Succeeded(s, step) ==
    \E i \in 1..Len(s.trace) : s.trace[i].step = step /\ s.trace[i].err = ""

\* C1: every tag, reference, release and asset the pipeline creates is named
\* by the version exactly as parsed: tag name = version, reference =
\* "refs/tags/" + version, release tag = version and title = "Release " +
\* version, asset name = the Locator's display filename.
C1_VersionUsedVerbatim ==
    /\ Succeeded(p, "parseVersionFromGeode") => p.tagName = p.version
    /\ \A i \in 1..Len(p.trace) :
         LET e == p.trace[i]
         IN  /\ e.step = "CreateTag" => e.arg = p.version
             /\ e.step = "CreateRef" => e.arg = RefsTags \o p.version
             /\ (e.step = "CreateRelease" /\ e.err = "") =>
                   [tag |-> p.version, name |-> ReleaseSp \o p.version] \in p.releases
             /\ e.step = "UploadReleaseAsset" => e.arg = p.geodeFilename

\* C2: in every terminal state of the process, every temporary file it
\* created has been removed.
C2_TempFilesRemoved == p.pc = "exited" => p.tmpFiles = {}

\* The steps of main in program order.
PipelineSteps ==
    <<"config", "ListWorkflowRunsByFileName", "ListArtifacts", "DownloadArtifact",
      "CreateTemp zip", "http.Get", "io.Copy", "os.ReadFile",
      "extractGeodeFileFromZip", "parseVersionFromGeode", "GetRef", "CreateTag",
      "CreateRef", "CreateRelease", "CreateTemp geode", "Write", "os.Open",
      "UploadReleaseAsset">>

\* C3: fail-fast and retry-free.  The steps attempted so far are an initial
\* part of the program order, each attempted once; only the last one can have
\* failed; a failed step has ended the process with a non-zero status; a
\* process that ended with a non-zero status ended on a failed step; status 0
\* and the success line go together and only after every step succeeded.
C3_FailFast ==
    /\ Len(p.trace) <= Len(PipelineSteps)
    /\ \A i \in 1..Len(p.trace) : p.trace[i].step = PipelineSteps[i]
    /\ \A i \in 1..Len(p.trace) : i < Len(p.trace) => p.trace[i].err = ""
    /\ \A i \in 1..Len(p.trace) :
         p.trace[i].err # "" => p.pc = "exited" /\ p.exit \notin {0, Running}
    /\ (p.pc = "exited") = (p.exit # Running)
    /\ p.exit \notin {0, Running} => Len(p.trace) > 0 /\ Last(p).err # ""
    /\ p.success = (p.exit = 0)
    /\ p.exit = 0 =>
         /\ Len(p.trace) = Len(PipelineSteps)
         /\ \A i \in 1..Len(p.trace) : p.trace[i].err = ""

\* C3's case: the release could not be created after the tag was; the
\* process has ended with status 1 and has not gone on to the upload.
C3_Witness ==
    /\ p.pc = "exited" /\ p.exit = 1
    /\ Last(p).step = "CreateRelease"
    /\ Succeeded(p, "CreateRef")

\* The basename by '/' alone.
SlashBase(name) ==
    LET idx == {i \in 1..Len(name) : name[i] = "/"}
    IN  IF idx = {} THEN name ELSE SubSeq(name, Max(idx) + 1, Len(name))

\* C4: for every outer archive (whose entries can be opened), the Locator
\* returns the content of the first non-directory entry whose name ends in
\* ".geode", with the slash-based basename of that name, and fails with
\* ModuleNotFound exactly when there is no such entry.
C4_FirstNonDirectoryGeode ==
    (/\ Attempted(p, "extractGeodeFileFromZip")
     /\ Last(p).step = "extractGeodeFileFromZip"
     /\ p.zipData.kind = "zip"
     /\ \A i \in 1..Len(p.zipData.files) : p.zipData.files[i].opens)
    => LET fs == p.zipData.files
           Q  == {i \in 1..Len(fs) : ~fs[i].isDir /\ HasSuffix(fs[i].name, GeodeSuffix)}
       IN  IF Q = {}
           THEN p.pc = "exited" /\ Last(p).err = ErrNoGeode
           ELSE /\ p.pc = "parse"
                /\ p.geodeData = fs[Min(Q)].content
                /\ p.geodeFilename = SlashBase(fs[Min(Q)].name)

\* The members of an object that bind to the version field.
VersionMembers(doc) ==
    {i \in 1..Len(doc.members) : EqualFold(doc.members[i].key, VersionKey)}

\* The content decodes as the structured record.
Decodable(content) ==
    /\ content.kind = "json"
    /\ \/ content.doc.top = "null"
       \/ /\ content.doc.top = "object"
          /\ \A i \in VersionMembers(content.doc) :
                content.doc.members[i].t \in {"string", "null"}

\* The version the record carries: that of the last member giving one.
VersionField(content) ==
    LET given == {i \in VersionMembers(content.doc) : content.doc.members[i].t = "string"}
    IN  IF given = {} THEN NoVersion ELSE content.doc.members[Max(given)].s

\* C5: the result of parseVersionFromGeode is decided by the first
\* non-directory entry whose name ends in "mod.json" alone: without one,
\* MetadataNotFound; if it cannot be decoded, MetadataCorrupt; if it decodes
\* and its version is absent or empty, MissingVersion; otherwise exactly its
\* version.  No later entry is consulted.
C5_FirstModJsonDecides ==
    (Attempted(p, "parseVersionFromGeode") /\ p.geodeData.kind = "zip")
    => LET fs == p.geodeData.files
           M  == {i \in 1..Len(fs) : ~fs[i].isDir /\ HasSuffix(fs[i].name, ModJsonName)}
       IN  IF M = {}
           THEN p.pc = "exited" /\ p.exit = 1 /\ Last(p).err = ErrNoModJson
           ELSE LET f == fs[Min(M)]
                IN  IF ~f.opens \/ ~Decodable(f.content)
                    THEN /\ p.pc = "exited" /\ p.exit = 1
                         /\ Last(p).err \in {ErrOpenModJson, ErrDecode}
                    ELSE IF VersionField(f.content) = NoVersion
                    THEN p.pc = "exited" /\ p.exit = 1 /\ Last(p).err = ErrNoVersion
                    ELSE /\ p.pc = "getRef" /\ Last(p).err = ""
                         /\ p.version = VersionField(f.content)

\* C5's case: the first metadata entry carries no version, a later one does,
\* and the Reader has failed with MissingVersion.
C5_Witness ==
    /\ p.pc = "exited" /\ Last(p).err = ErrNoVersion
    /\ Len(p.geodeData.files) = 2
    /\ HasSuffix(p.geodeData.files[2].name, ModJsonName)
    /\ ~p.geodeData.files[2].isDir /\ p.geodeData.files[2].opens
    /\ Decodable(p.geodeData.files[2].content)
    /\ VersionField(p.geodeData.files[2].content) # NoVersion

\* C6: given any returned artifact list, the Selector picks the first
\* artifact named "Build Output" whose owning run is the selected run, and
\* fails with ArtifactNotFound (status 1, diagnosed) exactly when there is
\* none.
C6_FirstMatchingArtifact ==
    (/\ Attempted(p, "ListArtifacts")
     /\ Last(p).step = "ListArtifacts"
     /\ Last(p).err # "Error listing artifacts")
    => LET M == {i \in 1..Len(p.arts) :
                    /\ p.arts[i].name = BuildOutput
                    /\ p.arts[i].wr = "id"
                    /\ p.arts[i].runID = p.latestRun}
       IN  IF M = {}
           THEN /\ p.pc = "exited" /\ p.exit = 1
                /\ Last(p).err = "Artifact 'Build Output' not found for latest run"
           ELSE p.pc = "getURL" /\ p.artifact = Min(M)

\* C7: when the run listing returns an empty list the process fails with
\* NoRunsFound, and neither the artifact listing nor any later call is made.
C7_NoRunsStopsBeforeArtifacts ==
    \A i \in 1..Len(p.trace) :
        p.trace[i].err = "No completed workflow runs found"
        => /\ p.trace[i].step = "ListWorkflowRunsByFileName"
           /\ i = Len(p.trace)
           /\ p.pc = "exited" /\ p.exit = 1
           /\ ~Attempted(p, "ListArtifacts")
           /\ p.created = {}

C7_Witness ==
    /\ Len(p.trace) > 0
    /\ Last(p).err = "No completed workflow runs found"
    /\ p.pc = "exited"

\* The steps that call the hosting service or fetch from the network.
RemoteSteps ==
    {"ListWorkflowRunsByFileName", "ListArtifacts", "DownloadArtifact", "http.Get",
     "GetRef", "CreateTag", "CreateRef", "CreateRelease", "UploadReleaseAsset"}

\* C8: without the credential, or without the owner or the repository name,
\* the process ends with a non-zero status before any remote call and before
\* any temporary file is created.
C8_ConfigMissingIsFatalFirst ==
    (p.token = "" \/ p.owner = "" \/ p.repo = "")
    => /\ p.pc \in {"config", "exited"}
       /\ p.pc = "exited" => p.exit \notin {0, Running}
       /\ \A i \in 1..Len(p.trace) : p.trace[i].step \notin RemoteSteps
       /\ p.created = {} /\ p.tmpFiles = {}
       /\ p.tags = {} /\ p.refs = {} /\ p.releases = {} /\ p.assets = {}

C8_Witness ==
    /\ p.token = "" /\ p.owner # "" /\ p.repo # ""
    /\ p.pc = "exited" /\ p.exit = 1

\* The references that existed when this process started.
RefsAtStart(s) ==
    s.refs \ {s.trace[i].arg : i \in {j \in 1..Len(s.trace) :
                                        s.trace[j].step = "CreateRef" /\ s.trace[j].err = ""}}

\* C9: no rollback.  What a step of this process created remotely is still
\* there in every later state of the process; a process whose tag was
\* created and whose release failed ends with the tag and no release; and a
\* process that finds its tag already there attempts the tag again (once it
\* has the branch reference), never gets past the tag steps, and creates no
\* release and no asset.
C9_NoRollback ==
    /\ \A i \in 1..Len(p.trace) :
         LET e == p.trace[i]
         IN  e.err = "" =>
               /\ e.step = "CreateTag" => e.arg \in p.tags
               /\ e.step = "CreateRef" => e.arg \in p.refs
               /\ e.step = "CreateRelease" =>
                     [tag |-> e.arg, name |-> ReleaseName(e.arg)] \in p.releases
               /\ e.step = "UploadReleaseAsset" =>
                     [tag |-> p.tagName, name |-> e.arg] \in p.assets
    /\ (p.pc = "exited" /\ Succeeded(p, "CreateRef") /\ Last(p).step = "CreateRelease")
       => /\ p.tagName \in p.tags /\ TagRef(p) \in p.refs
          /\ \A rel \in p.releases : rel.tag # p.tagName
    /\ (Succeeded(p, "parseVersionFromGeode") /\ TagRef(p) \in RefsAtStart(p))
       => /\ p.pc \in {"getRef", "createTag", "createRef", "exited"}
          /\ ~Succeeded(p, "CreateRef")
          /\ ~Attempted(p, "CreateRelease") /\ ~Attempted(p, "UploadReleaseAsset")
          /\ p.exit # 0
          /\ (p.pc = "exited" /\ Succeeded(p, "GetRef"))
             => \E i \in 1..Len(p.trace) :
                   p.trace[i].step = "CreateTag" /\ p.trace[i].arg = p.tagName

\* C9's case: a second process found the tag the first one left and has
\* ended at the reference step, having created the tag object again.
C9_Witness ==
    /\ p.proc = 2 /\ p.pc = "exited" /\ p.exit = 1
    /\ TagRef(p) \in RefsAtStart(p)
    /\ Succeeded(p, "CreateTag")
    /\ Last(p).step = "CreateRef"
    /\ \A rel \in p.releases : rel.tag # p.tagName

ListerFailed(s) == \E i \in 1..Len(s.lister) : s.lister[i]

\* C10: the verbose flag has no effect on the outcome.  Two processes that
\* differ in it alone and get the same answers are at the same step, with
\* the same history of steps and arguments, the same status and the same
\* remote repository; only the verbose one lists archives; and a listing
\* that failed has not ended the process: extraction succeeded and the
\* process went on to read the version.
C10_VerboseHasNoEffect ==
    /\ p.verbose # q.verbose
    /\ p.pc = q.pc /\ p.exit = q.exit /\ p.success = q.success
    /\ p.trace = q.trace
    /\ p.tags = q.tags /\ p.refs = q.refs
    /\ p.releases = q.releases /\ p.assets = q.assets
    /\ p.tmpFiles = q.tmpFiles
    /\ \A s \in {p, q} :
         /\ ~s.verbose => s.lister = <<>>
         /\ (s.verbose /\ Succeeded(s, "extractGeodeFileFromZip")) => Len(s.lister) = 2
         /\ ListerFailed(s) =>
              /\ Succeeded(s, "extractGeodeFileFromZip")
              /\ s.pc = "parse" \/ Attempted(s, "parseVersionFromGeode")

\* C10's case: the listing of the module bytes failed in the verbose
\* process, and both processes went on to the version reader.
C10_Witness ==
    /\ \E s \in {p, q} : s.verbose /\ ListerFailed(s)
    /\ Attempted(p, "parseVersionFromGeode")
    /\ Attempted(q, "parseVersionFromGeode")
====
